---- MODULE Spec2Model ----
(***************************************************************************)
(* picstory-api: registration, credential verification and the token       *)
(* lifecycle (app/core/security.py, app/services/auth_service.py,          *)
(* app/routers/auth.py, app/crud/crud_users.py).                           *)
(*                                                                         *)
(* Time is counted in ticks, TicksPerSec ticks to the second, because      *)
(* datetime.now() has sub-second resolution while the exp claim of a token *)
(* and the clock jwt.decode compares it with are whole seconds.            *)
(*                                                                         *)
(* An optional value (Python's None | T) is a set: {} is None, {v} is v.   *)
(* A call that can raise is a record [raised, value]: raised is "" or the  *)
(* name of the exception.                                                  *)
(***************************************************************************)
EXTENDS Integers, FiniteSets, TLC

VARIABLES settings, users, now, advances, issued, resp, reg

vars == <<settings, users, now, advances, issued, resp, reg>>

(***************************************************************************)
(* Bounds of the model.                                                    *)
(***************************************************************************)
TicksPerSec == 2
MaxAdvance == 2
MaxPairs == 2
NumWorkers == 2

(***************************************************************************)
(* timedelta(minutes=...) and timedelta(days=...), in seconds.             *)
(***************************************************************************)
SecondsPerMinute == 60
SecondsPerDay == 86400

Emails == {"a@x.com", ""}
Usernames == {"alice", "bob"}
Passwords == {"p1", "p2"}
Salts == {"s1", "s2"}
ConfigValues == {-1, 0, 1}
Workers == 1..NumWorkers

Absent == "<absent>"
Truncated == "<truncated>"

(***************************************************************************)
(* Settings: four plain ints/strs, no validator; loaded once.              *)
(***************************************************************************)
Settings == [access_token_expire_minutes : ConfigValues,
             refresh_token_expire_days : ConfigValues]

(***************************************************************************)
(* bcrypt.  A hash string "$2b$12$<salt><digest>" is [parseable, salt,     *)
(* digest]; the digest of password p under salt s is written p (two        *)
(* passwords have the same digest under a salt only if they are equal).    *)
(* hashpw raises ValueError("Invalid salt") when the salt prefix cannot be *)
(* parsed; it reads nothing after the salt, so a hash whose digest part is *)
(* cut or overwritten parses, and checkpw then answers False.              *)
(***************************************************************************)
hashpw(password, salt) ==
    [parseable |-> TRUE, salt |-> salt, digest |-> password]

checkpw(password, hashed) ==
    IF ~hashed.parseable
    THEN [raised |-> "ValueError", value |-> FALSE]
    ELSE [raised |-> "", value |-> hashpw(password, hashed.salt) = hashed]

verify_password(plain_password, hashed_password) ==
    checkpw(plain_password, hashed_password)

get_password_hash(password, salt) == hashpw(password, salt)

\* Stored hashes that no call of get_password_hash produced.
BadSaltHash == [parseable |-> FALSE, salt |-> Absent, digest |-> Absent]
TruncatedHash(salt) == [parseable |-> TRUE, salt |-> salt, digest |-> Truncated]
GoodHashes == {get_password_hash(p, s) : p \in Passwords, s \in Salts}
MalformedHashes == {BadSaltHash} \cup {TruncatedHash(s) : s \in Salts}

(***************************************************************************)
(* The users table: rows with unique email and unique username.            *)
(***************************************************************************)
UserModel(username, email, hashed_password) ==
    [username |-> username, email |-> email, hashed_password |-> hashed_password]

get_user_by_email(table, email) ==
    {u \in table : u.email = email}

\* session.add + session.commit: the unique indexes reject a duplicate.
create_user(table, model) ==
    IF \E u \in table : u.email = model.email \/ u.username = model.username
    THEN [raised |-> "IntegrityError", value |-> table]
    ELSE [raised |-> "", value |-> table \cup {model}]

(***************************************************************************)
(* Tokens.  A token string is [wellformed, signed, claims]: wellformed is  *)
(* three base64url segments holding JSON, signed is a signature that       *)
(* verifies under settings.secret_key.                                     *)
(***************************************************************************)
Sec(ticks) == ticks \div TicksPerSec

\* jwt.encode: a datetime exp becomes timegm(utctimetuple()), whole seconds.
jwt_encode(claims) ==
    [wellformed |-> TRUE, signed |-> TRUE,
     claims |-> [claims EXCEPT !.exp = Sec(claims.exp)]]

\* jwt.decode with the expiry test off by one (exp <= now).
jwt_decode_expired_at_exp(token, t) ==
    IF ~token.wellformed \/ ~token.signed
    THEN [raised |-> "JWTError", value |-> {}]
    ELSE IF token.claims.exp <= Sec(t)
    THEN [raised |-> "JWTError", value |-> {}]
    ELSE [raised |-> "", value |-> {token.claims}]

\* jwt.decode: structure and signature first, then exp against the clock's
\* whole second: expired only when exp < now.
jwt_decode(token, t) ==
    IF ~token.wellformed \/ ~token.signed
    THEN [raised |-> "JWTError", value |-> {}]
    ELSE IF token.claims.exp < Sec(t)
    THEN [raised |-> "JWTError", value |-> {}]
    ELSE [raised |-> "", value |-> {token.claims}]

Truthy(s) == s # Absent /\ s # ""

\* verify_token without the comparison of the type claim.
verify_token_any_type(token, token_type, t) ==
    LET decoded == jwt_decode(token, t) IN
    IF decoded.raised = "JWTError"
    THEN [raised |-> "", value |-> {}]
    ELSE decoded

verify_token(token, token_type, t) ==
    LET decoded == jwt_decode(token, t) IN
    IF decoded.raised = "JWTError"
    THEN [raised |-> "", value |-> {}]
    ELSE IF decoded.raised # ""
    THEN decoded
    ELSE LET payload == CHOOSE p \in decoded.value : TRUE IN
         IF Truthy(token_type) /\ payload.type # token_type
         THEN [raised |-> "", value |-> {}]
         ELSE [raised |-> "", value |-> {payload}]

\* expires_delta in seconds, t the clock in ticks.
create_token(data, expires_delta, t) ==
    jwt_encode([data EXCEPT !.exp = t + expires_delta * TicksPerSec])

create_access_token(data, expires_delta, t) ==
    create_token([data EXCEPT !.type = "access"], expires_delta, t)

create_refresh_token(data, expires_delta, t) ==
    create_token([data EXCEPT !.type = "refresh"], expires_delta, t)

Data(sub, username) ==
    [sub |-> sub, username |-> username, type |-> Absent, exp |-> 0]

create_tokens(user, cfg, t) ==
    [access_token |->
        create_access_token(Data(user.email, user.username),
                            cfg.access_token_expire_minutes * SecondsPerMinute, t),
     refresh_token |->
        create_refresh_token(Data(user.email, Absent),
                             cfg.refresh_token_expire_days * SecondsPerDay, t),
     token_type |-> "bearer"]

authenticate_user(table, email, password) ==
    LET found == get_user_by_email(table, email) IN
    IF found = {}
    THEN [raised |-> "", value |-> {}]
    ELSE LET user == CHOOSE u \in found : TRUE
             checked == verify_password(password, user.hashed_password) IN
         IF checked.raised = "ValueError"
         THEN [raised |-> "", value |-> {}]
         ELSE IF checked.raised # ""
         THEN [raised |-> checked.raised, value |-> {}]
         ELSE [raised |-> "", value |-> {user}]

\* refresh_user_tokens without the test of the sub claim.
refresh_user_tokens_no_sub_test(table, refresh_token, cfg, t) ==
    LET verified == verify_token(refresh_token, "refresh", t) IN
    IF verified.raised # ""
    THEN [raised |-> verified.raised, value |-> {}]
    ELSE IF verified.value = {}
    THEN [raised |-> "", value |-> {}]
    ELSE LET payload == CHOOSE p \in verified.value : TRUE
             found == get_user_by_email(table, payload.sub) IN
         IF found = {}
         THEN [raised |-> "", value |-> {}]
         ELSE [raised |-> "",
               value |-> {create_tokens(CHOOSE u \in found : TRUE, cfg, t)}]

refresh_user_tokens(table, refresh_token, cfg, t) ==
    LET verified == verify_token(refresh_token, "refresh", t) IN
    IF verified.raised # ""
    THEN [raised |-> verified.raised, value |-> {}]
    ELSE IF verified.value = {}
    THEN [raised |-> "", value |-> {}]
    ELSE LET payload == CHOOSE p \in verified.value : TRUE
             email == payload.sub IN
         IF ~Truthy(email)
         THEN [raised |-> "", value |-> {}]
         ELSE LET found == get_user_by_email(table, email) IN
              IF found = {}
              THEN [raised |-> "", value |-> {}]
              ELSE [raised |-> "",
                    value |-> {create_tokens(CHOOSE u \in found : TRUE, cfg, t)}]

(***************************************************************************)
(* Responses of the endpoints.                                             *)
(***************************************************************************)
NoToken == [wellformed |-> FALSE, signed |-> FALSE,
            claims |-> [sub |-> Absent, username |-> Absent,
                        type |-> Absent, exp |-> 0]]

Response(op, email, password, token, token_type, status, detail, data, payload, raised) ==
    [op |-> op, email |-> email, password |-> password, token |-> token,
     token_type |-> token_type, status |-> status, detail |-> detail,
     data |-> data, payload |-> payload, raised |-> raised]

Idle == Response("idle", Absent, Absent, NoToken, Absent, 0, "", {}, {}, "")

\* login and login_json have the same body.
login(op, table, email, password, cfg, t) ==
    LET user == authenticate_user(table, email, password) IN
    IF user.raised # ""
    THEN Response(op, email, password, NoToken, Absent, 500,
                  "Internal Server Error", {}, {}, user.raised)
    ELSE IF user.value = {}
    THEN Response(op, email, password, NoToken, Absent, 401,
                  "Incorrect email or password", {}, {}, "")
    ELSE Response(op, email, password, NoToken, Absent, 200,
                  "User successfully logged in",
                  {create_tokens(CHOOSE u \in user.value : TRUE, cfg, t)}, {}, "")

refresh_token(table, token, cfg, t) ==
    LET tokens == refresh_user_tokens(table, token, cfg, t) IN
    IF tokens.raised # ""
    THEN Response("refresh", Absent, Absent, token, Absent, 500,
                  "Internal Server Error", {}, {}, tokens.raised)
    ELSE IF tokens.value = {}
    THEN Response("refresh", Absent, Absent, token, Absent, 401,
                  "Invalid or expired refresh token", {}, {}, "")
    ELSE Response("refresh", Absent, Absent, token, Absent, 200,
                  "User token successfully refreshed", tokens.value, {}, "")

(***************************************************************************)
(* Issuance history: which tokens were handed out, when, by which creator. *)
(***************************************************************************)
Issuance(pair, t) ==
    {[tok |-> pair.access_token, at |-> t, by |-> "create_access_token"],
     [tok |-> pair.refresh_token, at |-> t, by |-> "create_refresh_token"]}

Record(data, t) ==
    IF data = {} THEN issued ELSE issued \cup Issuance(CHOOSE p \in data : TRUE, t)

IssuedAt == {i.at : i \in issued}

\* Token strings a client can present: the ones handed out, those with a
\* character of the signature changed, a string that is no token, and a token
\* signed with the same key whose payload has no sub.
Tamper(token) == [token EXCEPT !.signed = FALSE]
Garbage == NoToken
NoSubToken ==
    [wellformed |-> TRUE, signed |-> TRUE,
     claims |-> [sub |-> Absent, username |-> Absent, type |-> "refresh",
                 exp |-> 10 * SecondsPerDay]]
Presentable ==
    {i.tok : i \in issued} \cup {Tamper(i.tok) : i \in issued}
        \cup {Garbage, NoSubToken}

(***************************************************************************)
(* Initial states.                                                         *)
(***************************************************************************)
NoRegistration ==
    [pc |-> "idle", username |-> Absent, email |-> Absent, password |-> Absent,
     status |-> 0, email_taken |-> FALSE]

InitCommon ==
    /\ settings \in Settings
    /\ now = 0
    /\ advances = 0
    /\ issued = {}
    /\ resp = Idle
    /\ reg = [w \in Workers |-> NoRegistration]

\* The table as earlier registrations left it: one user, whose email is any
\* string UserCreate accepts.
Init ==
    /\ InitCommon
    /\ users \in {{UserModel("alice", "a@x.com", get_password_hash("p1", "s1"))},
                 {UserModel("bob", "", get_password_hash("p2", "s2"))}}

(***************************************************************************)
(* Actions of the token lifecycle.                                         *)
(***************************************************************************)
\* The event loop runs one handler at a time: a request is taken when the
\* previous response has been sent.
Handle(r) ==
    /\ resp = Idle
    /\ Cardinality(IssuedAt \cup (IF r.data = {} THEN {} ELSE {now})) <= MaxPairs
    /\ resp' = r
    /\ issued' = Record(r.data, now)
    /\ UNCHANGED <<settings, users, now, advances, reg>>

Login ==
    \E email \in Emails, password \in Passwords :
        Handle(login("login", users, email, password, settings, now))

LoginJson ==
    \E email \in Emails, password \in Passwords :
        Handle(login("login_json", users, email, password, settings, now))

RefreshToken ==
    \E token \in Presentable :
        Handle(refresh_token(users, token, settings, now))

VerifyToken ==
    \E token \in Presentable, token_type \in {"access", "refresh"} :
        LET verified == verify_token(token, token_type, now) IN
        Handle(Response("verify", Absent, Absent, token, token_type, 0, "",
                        {}, verified.value, verified.raised))

Jumps == {1, TicksPerSec, SecondsPerMinute * TicksPerSec,
          SecondsPerDay * TicksPerSec}

Advance ==
    /\ resp = Idle
    /\ advances < MaxAdvance
    /\ \E d \in Jumps : now' = now + d
    /\ advances' = advances + 1
    /\ UNCHANGED <<settings, users, issued, resp, reg>>

\* A row of the users table removed by another client of the database.
ExternalDelete ==
    /\ resp = Idle
    /\ \E u \in users : users' = users \ {u}
    /\ UNCHANGED <<settings, now, advances, issued, resp, reg>>

\* The handler returns (SuccessResponse) or raises (HTTPException): the
\* response leaves and the next request can be taken.
Respond ==
    /\ resp # Idle
    /\ resp' = Idle
    /\ UNCHANGED <<settings, users, now, advances, issued, reg>>

Next ==
    \/ Login
    \/ LoginJson
    \/ RefreshToken
    \/ VerifyToken
    \/ Respond
    \/ Advance
    \/ ExternalDelete

Spec == Init /\ [][Next]_vars

(***************************************************************************)
(* Credential verification over the hashes the table can hold.  A          *)
(* hashed_password that get_password_hash did not write can only come from *)
(* another client of the database.                                         *)
(***************************************************************************)
ExternalCorrupt ==
    /\ resp = Idle
    /\ \E u \in users, h \in MalformedHashes :
           users' = (users \ {u}) \cup {[u EXCEPT !.hashed_password = h]}
    /\ UNCHANGED <<settings, now, advances, issued, resp, reg>>

InitAuth ==
    /\ InitCommon
    /\ users \in {{UserModel(n, e, h)} :
                    n \in Usernames, e \in Emails, h \in GoodHashes}

NextAuth ==
    \/ Login
    \/ LoginJson
    \/ Respond
    \/ ExternalCorrupt
    \/ ExternalDelete

SpecAuth == InitAuth /\ [][NextAuth]_vars

(***************************************************************************)
(* register.  The handler reads the table (get_user_by_email) and writes   *)
(* it (create_user) in two statements; Workers are the server processes    *)
(* that share the table.  A finished registration keeps the email it was   *)
(* for, its status, and whether that email was in the table when it ended. *)
(***************************************************************************)
Registration(pc, username, email, password, status, email_taken) ==
    [pc |-> pc, username |-> username, email |-> email, password |-> password,
     status |-> status, email_taken |-> email_taken]

RegisterCheck ==
    \E w \in Workers, username \in Usernames, email \in Emails,
       password \in Passwords :
        /\ reg[w].pc = "idle"
        /\ LET existing_user == get_user_by_email(users, email) IN
           reg' = [reg EXCEPT ![w] =
                     IF existing_user # {}
                     THEN Registration("idle", Absent, email, Absent, 400, TRUE)
                     ELSE Registration("insert", username, email, password, 0, FALSE)]
        /\ UNCHANGED <<settings, users, now, advances, issued, resp>>

RegisterInsert ==
    \E w \in Workers, salt \in Salts :
        /\ reg[w].pc = "insert"
        /\ LET hashed_password == get_password_hash(reg[w].password, salt)
               created == create_user(users, UserModel(reg[w].username,
                                                       reg[w].email,
                                                       hashed_password))
           IN
           /\ users' = created.value
           /\ reg' = [reg EXCEPT ![w] =
                        IF created.raised # ""
                        THEN Registration("idle", Absent, reg[w].email, Absent, 500,
                                          get_user_by_email(users, reg[w].email) # {})
                        ELSE Registration("idle", Absent, reg[w].email, Absent,
                                          200, FALSE)]
        /\ UNCHANGED <<settings, now, advances, issued, resp>>

InitRegister ==
    /\ InitCommon
    /\ users = {}

NextRegister ==
    \/ RegisterCheck
    \/ RegisterInsert
    \/ ExternalDelete

SpecRegister == InitRegister /\ [][NextRegister]_vars

(***************************************************************************)
(* Properties.                                                             *)
(***************************************************************************)
IsLogin == resp.op \in {"login", "login_json"}

Unauthorized(detail) ==
    /\ resp.status = 401
    /\ resp.detail = detail
    /\ resp.data = {}
    /\ resp.raised = ""

\* The user the login request names has a hash get_password_hash wrote for
\* another password than the one supplied.
WrongPassword ==
    \E u \in users :
        /\ u.email = resp.email
        /\ \E p \in Passwords, s \in Salts :
               u.hashed_password = get_password_hash(p, s) /\ p # resp.password

Malformed(hashed) == ~hashed.parseable \/ hashed.digest = Truncated

\* C1: a login with the email of a stored user and a password that does not
\* match the stored hash is answered 401 "Incorrect email or password" and
\* hands out no token pair.
C1_WrongPasswordRejected ==
    (IsLogin /\ WrongPassword) =>
        Unauthorized("Incorrect email or password")

Outcome(r) == <<r.status, r.detail, r.data = {}, r.raised>>

\* C2: the answer to a login with a known email and a wrong password is the
\* answer the same request gets with any email that is not in the table.
C2_UnknownEmailSameOutcome ==
    (IsLogin /\ WrongPassword) =>
        \A e \in Emails :
            get_user_by_email(users, e) = {} =>
                Outcome(login(resp.op, users, e, resp.password, settings, now))
                    = Outcome(resp)

\* C9: a login for a user whose stored hash is malformed is answered like
\* invalid credentials, whatever the password: no user, no exception.
C9_MalformedHashFailsClosed ==
    (IsLogin /\ \E u \in users :
                    u.email = resp.email /\ Malformed(u.hashed_password)) =>
        Unauthorized("Incorrect email or password")

(***************************************************************************)
(* Token lifetime.  Ttl is the configured lifetime of an issued token in   *)
(* seconds, Expiry the instant t + ttl in ticks.                           *)
(***************************************************************************)
Ttl(i) ==
    IF i.by = "create_access_token"
    THEN settings.access_token_expire_minutes * SecondsPerMinute
    ELSE settings.refresh_token_expire_days * SecondsPerDay

Expiry(i) == i.at + Ttl(i) * TicksPerSec

\* The verify_token call answered in resp was for issued token i, asking for
\* the type i was issued with.
VerifiedAs(i) ==
    /\ resp.op = "verify"
    /\ resp.token = i.tok
    /\ resp.token_type = i.tok.claims.type

RefreshedWith(i) ==
    /\ resp.op = "refresh"
    /\ resp.token = i.tok
    /\ i.by = "create_refresh_token"

\* C3 as stated: a token issued at t with ttl > 0 is accepted by verify_token
\* at every time before t + ttl and rejected at every time after t + ttl, and
\* a renewal with a refresh token past t + ttl issues nothing.
C3_RejectedRightAfterExpiry ==
    \A i \in issued :
        /\ (VerifiedAs(i) /\ Ttl(i) > 0) =>
              /\ now < Expiry(i) => resp.payload # {}
              /\ now > Expiry(i) => resp.payload = {}
        /\ (RefreshedWith(i) /\ Ttl(i) > 0 /\ now > Expiry(i)) => resp.data = {}

\* C3 amended: exp is the whole second of t + ttl and the clock is read in
\* whole seconds.  The token is accepted exactly while the clock's second is
\* not past exp: at every time before t + ttl, and still during the rest of
\* the second t + ttl falls in; it is rejected from one second after t + ttl
\* on.  A renewal with a token whose exp second has passed issues nothing.
C3_ExpiryInWholeSeconds ==
    /\ \A i \in issued :
          (VerifiedAs(i) /\ Ttl(i) > 0) =>
              /\ resp.payload # {} <=> Sec(now) <= Sec(Expiry(i))
              /\ resp.payload # {} => resp.payload = {i.tok.claims}
              /\ now < Expiry(i) => resp.payload # {}
              /\ now >= Expiry(i) + TicksPerSec => resp.payload = {}
    /\ (resp.op = "refresh" /\ resp.token.claims.exp < Sec(now)) =>
          Unauthorized("Invalid or expired refresh token")

\* An access token issued with a positive ttl, verified as an access token a
\* second or more after t + ttl, is rejected.
C3_Witness ==
    \E i \in issued :
        /\ VerifiedAs(i)
        /\ Ttl(i) > 0
        /\ now >= Expiry(i) + TicksPerSec
        /\ resp.payload = {}

\* C4: a token from create_access_token is rejected where 'refresh' is
\* required and a token from create_refresh_token where 'access' is required;
\* a renewal presented with an access token issues nothing.
C4_TypesNotInterchangeable ==
    \A i \in issued :
        /\ (resp.op = "verify" /\ resp.token = i.tok
              /\ i.by = "create_access_token" /\ resp.token_type = "refresh") =>
              resp.payload = {}
        /\ (resp.op = "verify" /\ resp.token = i.tok
              /\ i.by = "create_refresh_token" /\ resp.token_type = "access") =>
              resp.payload = {}
        /\ (resp.op = "refresh" /\ resp.token = i.tok
              /\ i.by = "create_access_token") =>
              Unauthorized("Invalid or expired refresh token")

\* A renewal presented with an unexpired access token of a user who is in the
\* table, refused.
C4_Witness ==
    \E i \in issued :
        /\ resp.op = "refresh"
        /\ resp.token = i.tok
        /\ i.by = "create_access_token"
        /\ i.tok.claims.exp >= Sec(now)
        /\ Truthy(i.tok.claims.sub)
        /\ get_user_by_email(users, i.tok.claims.sub) # {}
        /\ resp.status = 401

\* C5: a renewal with a well-formed, unexpired refresh token whose sub is the
\* email of a user in the table returns a pair: the access token verifies as
\* 'access' with that sub and the user's username, the refresh token verifies
\* as 'refresh' with that sub, and both exp count from the time of renewal.
C5_RenewalReturnsFreshPair ==
    (/\ resp.op = "refresh"
     /\ resp.token.wellformed
     /\ resp.token.signed
     /\ resp.token.claims.type = "refresh"
     /\ resp.token.claims.exp >= Sec(now)
     /\ get_user_by_email(users, resp.token.claims.sub) # {}) =>
        /\ resp.status = 200
        /\ resp.data # {}
        /\ \A pair \in resp.data, u \in get_user_by_email(users, resp.token.claims.sub) :
              /\ verify_token(pair.access_token, "access", now).value =
                    {[sub |-> resp.token.claims.sub, username |-> u.username,
                      type |-> "access",
                      exp |-> Sec(now + settings.access_token_expire_minutes
                                          * SecondsPerMinute * TicksPerSec)]}
              /\ verify_token(pair.refresh_token, "refresh", now).value =
                    {[sub |-> resp.token.claims.sub, username |-> Absent,
                      type |-> "refresh",
                      exp |-> Sec(now + settings.refresh_token_expire_days
                                          * SecondsPerDay * TicksPerSec)]}

\* C6: every issued token carries one type tag, 'access' or 'refresh', and an
\* exp strictly later than the time it was issued at, for every value of the
\* two settings.
C6_ExpiryStrictlyAfterIssuance ==
    \A i \in issued :
        /\ i.tok.claims.type \in {"access", "refresh"}
        /\ i.tok.claims.exp * TicksPerSec > i.at

\* C7: after any sequence of logins and renewals, every refresh token issued
\* so far whose user is still in the table is accepted by refresh_user_tokens
\* until its own exp, and the call returns a pair.
C7_IssuedRefreshTokensStayAccepted ==
    \A i \in issued :
        (/\ i.by = "create_refresh_token"
         /\ i.tok.claims.exp >= Sec(now)
         /\ get_user_by_email(users, i.tok.claims.sub) # {}) =>
            /\ refresh_user_tokens(users, i.tok, settings, now).value # {}
            /\ RefreshedWith(i) => resp.data # {}

\* The causes of a failed renewal.
RenewalCause(token) ==
    \/ ~token.wellformed
    \/ ~token.signed
    \/ token.claims.exp < Sec(now)
    \/ token.claims.type # "refresh"
    \/ token.claims.sub \in {Absent, ""}
    \/ get_user_by_email(users, token.claims.sub) = {}

\* C8: a renewal whose token is corrupt or badly signed, expired, of the
\* wrong type, without a sub or with an empty one, or for an email that is
\* not in the table, is answered 401 "Invalid or expired refresh token" with
\* no pair; no renewal raises, and every renewal without a pair is that 401.
C8_RenewalFailuresAlike ==
    resp.op = "refresh" =>
        /\ resp.raised = ""
        /\ RenewalCause(resp.token) =>
              Unauthorized("Invalid or expired refresh token")
        /\ resp.data = {} => Unauthorized("Invalid or expired refresh token")

\* A renewal with an unexpired refresh token handed out to a user whose row
\* has since been deleted, refused.
C8_Witness ==
    \E i \in issued :
        /\ RefreshedWith(i)
        /\ i.tok.claims.exp >= Sec(now)
        /\ Truthy(i.tok.claims.sub)
        /\ get_user_by_email(users, i.tok.claims.sub) = {}
        /\ resp.status = 401

\* C10: the table never holds two rows with one email, and a registration
\* that ends while its email is in the table ends in the 400 rejection.
C10_EmailUniqueAndRejected ==
    /\ \A u \in users, v \in users : u.email = v.email => u = v
    /\ \A w \in Workers :
          (reg[w].pc = "idle" /\ reg[w].status # 0 /\ reg[w].email_taken) =>
              reg[w].status = 400

====
